---- MODULE Spec2Model ----
(***************************************************************************)
(* GameBot (src/app.py): the chat-input handler of the Streamlit shell and *)
(* the LangGraph loop it drives (chatbot node, conditional router, tool    *)
(* node), with the session state the handler keeps between submits.        *)
(***************************************************************************)
EXTENDS Naturals, Sequences, FiniteSets

VARIABLES
    display,    \* st.session_state.messages: the displayed chat history
    log,        \* st.session_state.graph_state["messages"]
    aux,        \* st.session_state.graph_state["order"], ["finished"]
    pc,         \* position of the handler / of the graph run
    work,       \* the "messages" channel of the running graph
    waux,       \* the "order" / "finished" channels of the running graph
    step,       \* node super-steps executed by the running graph.invoke
    exc,        \* the exception travelling out of graph.invoke ("" = none)
    nextId,     \* source of fresh message / tool-call identifiers (uuid4)
    gwMode,     \* the Gateway stub of the running turn
    routed,     \* last value returned (or raised) by maybe_route_to_tools
    turns,      \* history: submits accepted so far
    toolReplies,\* history: tool-requesting replies of the free Gateway so far
    gwCalls,    \* history: Gateway calls of the current graph run
    gwInput,    \* history: message list the last Gateway call received
    toolInvs,   \* history: registered-tool invocations of the current graph run
    searchFails,\* history: failed search calls of the current graph run
    turnBase,   \* history: Len(log) when the current turn was submitted
    startLog,   \* history: the message list the current graph run was given
    appended,   \* history: every message appended since the last reset
    outcome,    \* history: how the last turn ended
    returned,   \* history: the text the last turn handed to the shell
    ran,        \* history: ids of the calls of the last tools step, as they finished
    apiKey,     \* GOOGLE_API_KEY ("" = not set)
    configError \* the missing-key error is on the page

vars == <<display, log, aux, pc, work, waux, step, exc, nextId, gwMode, routed,
          turns, toolReplies, gwCalls, gwInput, toolInvs, searchFails, turnBase,
          startLog, appended, outcome, returned, ran, apiKey, configError>>

-----------------------------------------------------------------------------
(* Bounds of the model *)

MaxTurns == 2

MaxToolReplies == 1

UserTexts == {"u1"}

AssistantTexts == {"a1"}

-----------------------------------------------------------------------------
(* Program constants *)

RecursionLimit == 100

GAMEBOT_SYSINT == [role |-> "system", content |-> "You are GameBot",
                   tool_calls |-> <<>>, tool_call_id |-> 0, id |-> 0]

WELCOME_MSG == "Welcome to the GameBot expert system! How may I assist you with board games today?"

GameCatalog == <<"Monopoly", "Scrabble", "Chess", "Cluedo", "Uno", "Mahjong", "Mikado">>

RECURSIVE Lines(_)
Lines(names) ==
    IF names = <<>> THEN ""
    ELSE "    " \o Head(names) \o "\n" \o Lines(Tail(names))

get_list_game == "\n    Game:\n" \o Lines(GameCatalog) \o "  "

RegisteredTools == {"get_list_game", "search_game_online"}

InitialGraphState == [order |-> <<>>, finished |-> FALSE]

-----------------------------------------------------------------------------
(* Messages *)

HumanMessage(text) ==
    [role |-> "user", content |-> text, tool_calls |-> <<>>,
     tool_call_id |-> 0, id |-> 0]

AIMessage(text, calls, mid) ==
    [role |-> "assistant", content |-> text, tool_calls |-> calls,
     tool_call_id |-> 0, id |-> mid]

ToolMessage_NoLink(text, callId) ==
    [role |-> "tool", content |-> text, tool_calls |-> <<>>,
     tool_call_id |-> 0, id |-> 0]

ToolMessage(text, callId) ==
    [role |-> "tool", content |-> text, tool_calls |-> <<>>,
     tool_call_id |-> callId, id |-> 0]

Last(s) == s[Len(s)]

\* hasattr(msg, "tool_calls"): only AIMessage has the attribute
HasToolCalls(m) == m.role = "assistant"

\* add_messages: messages without an id get a fresh one; a message whose id
\* is already in the list replaces that entry, any other is appended
AssignIds(right, base) ==
    [i \in 1..Len(right) |->
        IF right[i].id = 0 THEN [right[i] EXCEPT !.id = base + i] ELSE right[i]]

RECURSIVE Merge(_, _)
Merge(left, right) ==
    IF right = <<>> THEN left
    ELSE LET m == Head(right)
             hit == {i \in 1..Len(left) : left[i].id = m.id}
         IN  IF hit = {}
             THEN Merge(Append(left, m), Tail(right))
             ELSE Merge([i \in 1..Len(left) |-> IF i \in hit THEN m ELSE left[i]],
                        Tail(right))

add_messages(left, right, base) == Merge(left, AssignIds(right, base))

-----------------------------------------------------------------------------
(* Turn Router *)

maybe_route_to_tools_AlwaysEnd(msgs) ==
    IF msgs = <<>> THEN "ValueError" ELSE "END"

maybe_route_to_tools_NoRaise(msgs) ==
    IF msgs = <<>> THEN "END"
    ELSE IF HasToolCalls(Last(msgs)) /\ Len(Last(msgs).tool_calls) > 0
         THEN "tools"
         ELSE "END"

maybe_route_to_tools_NoCheck(msgs) ==
    IF msgs = <<>> THEN "ValueError"
    ELSE IF HasToolCalls(Last(msgs)) THEN "tools" ELSE "END"

maybe_route_to_tools(msgs) ==
    IF msgs = <<>> THEN "ValueError"
    ELSE IF HasToolCalls(Last(msgs)) /\ Len(Last(msgs).tool_calls) > 0
         THEN "tools"
         ELSE "END"

-----------------------------------------------------------------------------
(* Tool Registry and ToolNode *)

SearchOutcomes == {"text", "api_error", "no_parts"}

SearchText == "A short description of the game"

\* search_game_online: the text of the first part of the first candidate, or
\* the exception raised by the client call or by the indexing of the response
search_game_online(o) ==
    IF o = "text" THEN [raised |-> FALSE, value |-> SearchText]
    ELSE IF o = "api_error" THEN [raised |-> TRUE, value |-> "ClientError('search failed')"]
    ELSE [raised |-> TRUE, value |-> "IndexError('list index out of range')"]

InvokeTool(name, o) ==
    IF name = "get_list_game"
    THEN [raised |-> FALSE, value |-> get_list_game]
    ELSE search_game_online(o)

InvalidToolText(name) ==
    "Error: " \o name \o " is not a valid tool, try one of [get_list_game, search_game_online]."

ToolErrorText(e) == "Error: " \o e \o "\n Please fix your mistakes."

RunToolCall_NoLookup(call, o) ==
    LET r == InvokeTool(call.name, o)
    IN  IF r.raised
        THEN ToolMessage(ToolErrorText(r.value), call.id)
        ELSE ToolMessage(r.value, call.id)

\* ToolNode, one call: an unregistered name and an exception raised by the
\* tool both become the content of the tool message (handle_tool_errors)
RunToolCall(call, o) ==
    IF call.name \notin RegisteredTools
    THEN ToolMessage(InvalidToolText(call.name), call.id)
    ELSE LET r == InvokeTool(call.name, o)
         IN  IF r.raised
             THEN ToolMessage(ToolErrorText(r.value), call.id)
             ELSE ToolMessage(r.value, call.id)

ToolNodeOutputs_FirstOnly(calls, outs) ==
    [i \in 1..(IF calls = <<>> THEN 0 ELSE 1) |-> RunToolCall(calls[i], outs[i])]

ToolNodeOutputs_Reversed(calls, outs) ==
    [i \in 1..Len(calls) |->
        RunToolCall(calls[Len(calls) + 1 - i], outs[Len(calls) + 1 - i])]

\* ToolNode: one tool message per tool call of the last message, in call order
ToolNodeOutputs(calls, outs) ==
    [i \in 1..Len(calls) |-> RunToolCall(calls[i], outs[i])]

\* the outcomes the environment can give the calls (only a search has any)
CallOutcomes(calls) ==
    {outs \in [1..Len(calls) -> SearchOutcomes] :
        \A i \in 1..Len(calls) :
            calls[i].name # "search_game_online" => outs[i] = "text"}

-----------------------------------------------------------------------------
(* Language-Model Gateway (the environment of the loop) *)

GatewayModes == {"free", "always_tool"}

ToolCallNames ==
    {<<"get_list_game">>, <<"search_game_online">>, <<"unknown_tool">>,
     <<"get_list_game", "search_game_online">>}

MakeCalls(names, mid) ==
    [i \in 1..Len(names) |-> [name |-> names[i], id |-> mid * 10 + i]]

\* what llm_with_tools.invoke can do: raise, or return one assistant message
GatewayReplies(mode, mayTool) ==
    IF mode = "always_tool"
    THEN {[kind |-> "tools", text |-> "", names |-> <<"get_list_game">>]}
    ELSE {[kind |-> "fail", text |-> "", names |-> <<>>]}
         \cup {[kind |-> "text", text |-> t, names |-> <<>>] : t \in AssistantTexts}
         \cup (IF mayTool
                THEN {[kind |-> "tools", text |-> "", names |-> n] : n \in ToolCallNames}
                ELSE {})

UpstreamErrorText == "UpstreamError('model call failed')"

RecursionErrorText == "Recursion limit of 100 reached without hitting a stop condition."

ValueErrorText == "No messages found when parsing state"

\* the exception messages the handler formats with str(e)
ErrorTexts == {UpstreamErrorText, RecursionErrorText, ValueErrorText}

-----------------------------------------------------------------------------
(* Orchestration loop: the compiled graph *)

\* the super-step budget of graph.invoke(..., {"recursion_limit": 100})
OutOfSteps_Off(s) == s >= 3 * RecursionLimit

OutOfSteps(s) == s >= RecursionLimit

\* chatbot_with_tools: the outcomes of the node on the given message list
chatbot_with_tools_AlwaysModel(msgs, mode, mayTool) ==
    GatewayReplies(mode, mayTool)

chatbot_with_tools(msgs, mode, mayTool) ==
    IF msgs # <<>>
    THEN GatewayReplies(mode, mayTool)
    ELSE {[kind |-> "welcome", text |-> WELCOME_MSG, names |-> <<>>]}

GatewayInput_NoSystem(msgs) == msgs

\* the list handed to llm_with_tools.invoke: [GAMEBOT_SYSINT] + state["messages"]
GatewayInput(msgs) == <<GAMEBOT_SYSINT>> \o msgs

ChatbotAux_Finish(a) == [a EXCEPT !.finished = TRUE]

\* defaults | state: the keys the state already has keep their values
ChatbotAux(a) == a

\* the node "chatbot" and the conditional edge that follows it
ChatbotStep ==
    /\ pc = "chatbot"
    /\ ~OutOfSteps(step)
    /\ \E r \in chatbot_with_tools(work, gwMode, toolReplies < MaxToolReplies) :
          LET called     == r.kind # "welcome"
              new_output == IF called
                            THEN AIMessage(r.text, MakeCalls(r.names, nextId + 1), nextId + 1)
                            ELSE AIMessage(r.text, <<>>, 0)
              state      == add_messages(work, <<new_output>>, nextId)
              route      == maybe_route_to_tools(state)
          IN  /\ gwCalls' = IF called THEN gwCalls + 1 ELSE gwCalls
              /\ gwInput' = IF called THEN GatewayInput(work) ELSE gwInput
              /\ toolReplies' = IF gwMode = "free" /\ r.kind = "tools"
                                THEN toolReplies + 1 ELSE toolReplies
              /\ IF r.kind = "fail"
                 THEN /\ pc' = "except"
                      /\ exc' = UpstreamErrorText
                      /\ UNCHANGED <<work, waux, step, nextId, routed, appended>>
                 ELSE /\ work' = state
                      /\ waux' = ChatbotAux(waux)
                      /\ step' = step + 1
                      /\ nextId' = nextId + 1
                      /\ routed' = route
                      /\ appended' = appended \o AssignIds(<<new_output>>, nextId)
                      /\ pc' = IF route = "tools" THEN "tools"
                               ELSE IF route = "END" THEN "end" ELSE "except"
                      /\ exc' = IF route = "ValueError" THEN ValueErrorText ELSE exc
    /\ UNCHANGED <<display, log, aux, gwMode, turns, toolInvs, searchFails,
                   turnBase, startLog, outcome, returned, ran, apiKey, configError>>

\* ToolNode(tools) is built with its default handle_tool_errors: an exception
\* raised by a tool is turned into the content of its tool message
ToolNodeHandles_Off(e) == FALSE

ToolNodeHandles(e) == TRUE

\* the exceptions the calls raise that ToolNode lets through, in call order
Unhandled(calls, outs) ==
    SelectSeq([i \in 1..Len(calls) |->
                  IF calls[i].name \in RegisteredTools
                  THEN InvokeTool(calls[i].name, outs[i])
                  ELSE [raised |-> FALSE, value |-> ""]],
              LAMBDA r : r.raised /\ ~ToolNodeHandles(r.value))

\* ToolNode, called through the synchronous graph.invoke, hands the calls of
\* one message to a thread pool: they may finish in any order
CompletionOrders(n) ==
    {f \in [1..n -> 1..n] : \A i, j \in 1..n : i # j => f[i] # f[j]}

\* the node "tools" (ToolNode) and the edge back to "chatbot"
ToolsStep ==
    /\ pc = "tools"
    /\ ~OutOfSteps(step)
    /\ LET calls == Last(work).tool_calls
       IN  \E outs \in CallOutcomes(calls) :
             LET msgs == ToolNodeOutputs(calls, outs)
                 esc  == Unhandled(calls, outs)
             IN  /\ \E done \in CompletionOrders(Len(calls)) :
                       ran' = [k \in 1..Len(calls) |-> calls[done[k]].id]
                 /\ toolInvs' = toolInvs
                        + Cardinality({i \in 1..Len(calls) : calls[i].name \in RegisteredTools})
                 /\ searchFails' = searchFails
                        + Cardinality({i \in 1..Len(calls) : outs[i] # "text"})
                 /\ IF esc = <<>>
                    THEN /\ work' = add_messages(work, msgs, nextId)
                         /\ nextId' = nextId + Len(msgs)
                         /\ appended' = appended \o AssignIds(msgs, nextId)
                         /\ step' = step + 1
                         /\ pc' = "chatbot"
                         /\ exc' = exc
                    ELSE /\ pc' = "except"
                         /\ exc' = Head(esc).value
                         /\ UNCHANGED <<work, nextId, appended, step>>
    /\ UNCHANGED <<display, log, aux, waux, gwMode, routed, turns, toolReplies,
                   gwCalls, gwInput, turnBase, startLog, outcome, returned, apiKey,
                   configError>>

\* the budget is spent and a node is still due: GraphRecursionError
RecursionLimitReached ==
    /\ pc \in {"chatbot", "tools"}
    /\ OutOfSteps(step)
    /\ pc' = "except"
    /\ exc' = RecursionErrorText
    /\ UNCHANGED <<display, log, aux, work, waux, step, nextId, gwMode, routed,
                   turns, toolReplies, gwCalls, gwInput, toolInvs, searchFails,
                   turnBase, startLog, appended, outcome, returned, ran, apiKey,
                   configError>>

-----------------------------------------------------------------------------
(* Presentation shell: the chat-input handler and the Clear Chat button *)

ErrorMsg(e) == "Sorry, I encountered an error: " \o e

\* "except Exception": every exception graph.invoke raises is an Exception
Caught_NotRecursion(e) == e # RecursionErrorText

Caught(e) == TRUE

\* what the handler stores in graph_state after graph.invoke returned
StoredMessages_Dup(result, old) == old \o result

StoredMessages(result, old) == result

\* what the handler leaves in graph_state after graph.invoke raised
KeptMessages_Rollback(old, base) == SubSeq(old, 1, base)

KeptMessages(old, base) == old

\* "if not GOOGLE_API_KEY": None and the empty string are both missing
ApiKeys == {"", "AIza"}

ApiKeyPresent_Skip(key) == TRUE

ApiKeyPresent(key) == key # ""

\* the script reports the missing key and stops before the rest of the page:
\* lines 147-150
ApiKeyCheck ==
    /\ pc = "idle"
    /\ ~ApiKeyPresent(apiKey)
    /\ configError' = TRUE
    /\ UNCHANGED <<display, log, aux, pc, work, waux, step, exc, nextId, gwMode,
                   routed, turns, toolReplies, gwCalls, gwInput, toolInvs,
                   searchFails, turnBase, startLog, appended, outcome, returned,
                   ran, apiKey>>

Submit ==
    /\ pc = "idle"
    /\ ApiKeyPresent(apiKey)
    /\ turns < MaxTurns
    /\ \E prompt \in UserTexts, mode \in GatewayModes :
          LET input == add_messages(<<>>, Append(log, HumanMessage(prompt)), nextId)
          IN  /\ display' = Append(display, [role |-> "user", content |-> prompt])
              /\ log' = input
              /\ work' = input
              /\ startLog' = input
              /\ appended' = Append(appended, Last(input))
              /\ nextId' = nextId + Len(input)
              /\ gwMode' = mode
    /\ waux' = aux
    /\ turnBase' = Len(log)
    /\ step' = 0
    /\ exc' = ""
    /\ gwCalls' = 0
    /\ toolInvs' = 0
    /\ searchFails' = 0
    /\ turns' = turns + 1
    /\ outcome' = "running"
    /\ pc' = "chatbot"
    /\ UNCHANGED <<aux, routed, toolReplies, gwInput, returned, ran, apiKey,
                   configError>>

\* graph.invoke returned: lines 219-226
HandlerSuccess ==
    /\ pc = "end"
    /\ LET response == Last(work).content
       IN  /\ display' = Append(display, [role |-> "assistant", content |-> response])
           /\ returned' = response
    /\ log' = StoredMessages(work, log)
    /\ aux' = waux
    /\ outcome' = "ok"
    /\ pc' = "idle"
    /\ UNCHANGED <<work, waux, step, exc, nextId, gwMode, routed, turns, toolReplies,
                   gwCalls, gwInput, toolInvs, searchFails, turnBase, startLog,
                   appended, ran, apiKey, configError>>

\* graph.invoke raised: lines 228-231
HandlerExcept ==
    /\ pc = "except"
    /\ IF Caught(exc)
       THEN /\ display' = Append(display, [role |-> "assistant", content |-> ErrorMsg(exc)])
            /\ returned' = ErrorMsg(exc)
            /\ log' = KeptMessages(log, turnBase)
            /\ outcome' = "error"
            /\ pc' = "idle"
       ELSE /\ pc' = "crashed"
            /\ UNCHANGED <<display, returned, log, outcome>>
    /\ UNCHANGED <<aux, work, waux, step, exc, nextId, gwMode, routed, turns,
                   toolReplies, gwCalls, gwInput, toolInvs, searchFails, turnBase,
                   startLog, appended, ran, apiKey, configError>>

\* the Clear Chat button: lines 187-190
ClearChat ==
    /\ pc = "idle"
    /\ ApiKeyPresent(apiKey)
    /\ display # <<>>
    /\ display' = <<>>
    /\ log' = <<>>
    /\ aux' = InitialGraphState
    /\ appended' = <<>>
    /\ outcome' = "cleared"
    /\ UNCHANGED <<pc, work, waux, step, exc, nextId, gwMode, routed, turns,
                   toolReplies, gwCalls, gwInput, toolInvs, searchFails, turnBase,
                   startLog, returned, ran, apiKey, configError>>

Init ==
    /\ display = <<>>
    /\ log = <<>>
    /\ aux = InitialGraphState
    /\ pc = "idle"
    /\ work = <<>>
    /\ waux = InitialGraphState
    /\ step = 0
    /\ exc = ""
    /\ nextId = 0
    /\ gwMode = "free"
    /\ routed = "none"
    /\ turns = 0
    /\ toolReplies = 0
    /\ gwCalls = 0
    /\ gwInput = <<>>
    /\ toolInvs = 0
    /\ searchFails = 0
    /\ turnBase = 0
    /\ startLog = <<>>
    /\ appended = <<>>
    /\ outcome = "none"
    /\ returned = ""
    /\ ran = <<>>
    /\ apiKey \in ApiKeys
    /\ configError = FALSE

Next ==
    \/ ApiKeyCheck
    \/ Submit
    \/ ChatbotStep
    \/ ToolsStep
    \/ RecursionLimitReached
    \/ HandlerSuccess
    \/ HandlerExcept
    \/ ClearChat

Spec == Init /\ [][Next]_vars

-----------------------------------------------------------------------------
(* The compiled graph run on its own, from any message list *)

MaxInputLen == 2

SampleMessages ==
    { HumanMessage("u1"),
      AIMessage("a1", <<>>, 0),
      AIMessage("", <<>>, 0),
      AIMessage("", <<[name |-> "get_list_game", id |-> 901]>>, 0),
      AIMessage("", <<[name |-> "get_list_game", id |-> 902],
                      [name |-> "search_game_online", id |-> 903]>>, 0),
      ToolMessage(get_list_game, 901),
      ToolMessage(ToolErrorText("ClientError('search failed')"), 903) }

RECURSIVE SeqsUpTo(_, _)
SeqsUpTo(S, n) ==
    IF n = 0 THEN {<<>>}
    ELSE LET shorter == SeqsUpTo(S, n - 1)
         IN  shorter \cup {Append(q, x) : q \in shorter, x \in S}

GraphInputs == {AssignIds(q, 0) : q \in SeqsUpTo(SampleMessages, MaxInputLen)}

GraphInit ==
    /\ display = <<>>
    /\ log = <<>>
    /\ aux = InitialGraphState
    /\ pc = "chatbot"
    /\ work \in GraphInputs
    /\ startLog = work
    /\ waux = InitialGraphState
    /\ step = 0
    /\ exc = ""
    /\ nextId = Len(work)
    /\ gwMode \in GatewayModes
    /\ routed = "none"
    /\ turns = 0
    /\ toolReplies = 0
    /\ gwCalls = 0
    /\ gwInput = <<>>
    /\ toolInvs = 0
    /\ searchFails = 0
    /\ turnBase = 0
    /\ appended = <<>>
    /\ outcome = "running"
    /\ returned = ""
    /\ ran = <<>>
    /\ apiKey = "AIza"
    /\ configError = FALSE

GraphNext ==
    \/ ChatbotStep
    \/ ToolsStep
    \/ RecursionLimitReached

GraphSpec == GraphInit /\ [][GraphNext]_vars

-----------------------------------------------------------------------------
(* The Turn Router applied to any message list *)

RouterInit ==
    /\ display = <<>>
    /\ log = <<>>
    /\ aux = InitialGraphState
    /\ pc = "route"
    /\ work \in GraphInputs
    /\ startLog = work
    /\ waux = InitialGraphState
    /\ step = 0
    /\ exc = ""
    /\ nextId = Len(work)
    /\ gwMode = "free"
    /\ routed = "none"
    /\ turns = 0
    /\ toolReplies = 0
    /\ gwCalls = 0
    /\ gwInput = <<>>
    /\ toolInvs = 0
    /\ searchFails = 0
    /\ turnBase = 0
    /\ appended = <<>>
    /\ outcome = "none"
    /\ returned = ""
    /\ ran = <<>>
    /\ apiKey = "AIza"
    /\ configError = FALSE

RouteCall ==
    /\ pc = "route"
    /\ routed' = maybe_route_to_tools(work)
    /\ pc' = "routed"
    /\ UNCHANGED <<display, log, aux, work, waux, step, exc, nextId, gwMode,
                   turns, toolReplies, gwCalls, gwInput, toolInvs, searchFails,
                   turnBase, startLog, appended, outcome, returned, ran, apiKey,
                   configError>>

RouterNext == RouteCall

RouterSpec == RouterInit /\ [][RouterNext]_vars

-----------------------------------------------------------------------------
(* Properties *)

TurnOver == pc = "idle" /\ outcome \in {"ok", "error"}

ReturnedTexts == AssistantTexts \cup {ErrorMsg(e) : e \in ErrorTexts}

CallNames(m) == [i \in 1..Len(m.tool_calls) |-> m.tool_calls[i].name]

Roles(msgs) == [i \in 1..Len(msgs) |-> msgs[i].role]

FallbackTexts == {ToolErrorText(search_game_online(o).value) : o \in SearchOutcomes \ {"text"}}

\* C1: every submit, whatever the Gateway and the tools do, ends with the
\* handler idle again and a text handed to the shell as the assistant entry of
\* the display; no exception leaves the handler (it never stops anywhere but
\* idle with a completed turn) and a run never exceeds its super-step budget.
C1_SubmitReturnsText ==
    /\ pc \in {"idle", "chatbot", "tools", "end", "except"}
    /\ step <= RecursionLimit
    /\ pc = "idle" => outcome \in {"none", "cleared", "ok", "error"}
    /\ TurnOver =>
          /\ returned \in ReturnedTexts
          /\ display # <<>>
          /\ Last(display) = [role |-> "assistant", content |-> returned]

C1_Witness ==
    /\ TurnOver
    /\ outcome = "error"
    /\ exc = RecursionErrorText
    /\ Last(display) = [role |-> "assistant", content |-> ErrorMsg(RecursionErrorText)]

\* C2: the router answers "tools" exactly when the last message carries a
\* non-empty list of tool calls, END when the list is empty or absent, and
\* raises ValueError on an empty message list.
C2_RouterContract ==
    pc = "routed" =>
        /\ (work = <<>>) <=> (routed = "ValueError")
        /\ work # <<>> =>
              /\ (routed = "tools") <=> (Last(work).tool_calls # <<>>)
              /\ (routed = "END") <=> (Last(work).tool_calls = <<>>)

C2_Witness ==
    /\ pc = "routed"
    /\ routed = "tools"
    /\ Len(Last(work).tool_calls) = 2

\* C3: a run never makes more than 100 Gateway calls nor more than 100
\* super-steps, and a turn whose Gateway always asks for a tool ends with the
\* recursion-limit error text handed to the shell.
C3_ToolCycleHalts ==
    /\ gwCalls <= RecursionLimit
    /\ step <= RecursionLimit
    /\ (TurnOver /\ gwMode = "always_tool") =>
          /\ outcome = "error"
          /\ returned = ErrorMsg(RecursionErrorText)

C3_Witness ==
    /\ TurnOver
    /\ gwMode = "always_tool"
    /\ gwCalls > 1
    /\ returned = ErrorMsg(RecursionErrorText)

\* C4: after a turn stopped by the iteration cap, every message the turn had
\* appended (user, assistant tool-call and tool-result messages) is in the
\* Conversation State log.
C4_CapKeepsTurnMessages ==
    (TurnOver /\ exc = RecursionErrorText) =>
        \A i \in 1..Len(work) : \E j \in 1..Len(log) : log[j] = work[i]

\* C5: after a turn in which a Gateway call failed, the last message of the
\* Conversation State log is the assistant-role error message of that turn.
C5_UpstreamErrorLogged ==
    (TurnOver /\ exc = UpstreamErrorText) =>
        /\ Last(log).role = "assistant"
        /\ Last(log).content = returned

\* C6: between turns the Conversation State log is exactly the sequence of
\* messages appended by the user, the Gateway and the tools since the last
\* reset, each once and in append order.
C6_LogIsWhatWasAppended ==
    pc = "idle" => log = appended

FirstOnEmpty == turnBase = 0 /\ Len(appended) >= 2

\* the Gateway's first reply of the turn asked for get_list_game alone, and
\* the turn ended normally after its second reply
ListGameScenario ==
    /\ TurnOver
    /\ outcome = "ok"
    /\ FirstOnEmpty
    /\ gwCalls = 2
    /\ CallNames(appended[2]) = <<"get_list_game">>

\* C7 as stated: in the get_list_game scenario on an empty log the turn
\* appends user, assistant tool-call, tool-result and final assistant
\* message in that order, five messages in all.
C7_FiveMessages ==
    ListGameScenario =>
        /\ Roles(log) = <<"user", "assistant", "tool", "assistant">>
        /\ Len(log) = 5

\* C7 (amended): in the get_list_game scenario on an empty log the log ends
\* up as exactly four messages: the user message, the assistant message
\* asking for get_list_game, the tool message with the catalog of seven games
\* answering that request, and the final assistant text, which is the text
\* returned; the Gateway was called twice and one tool was invoked.
C7_ListGameScenario ==
    ListGameScenario =>
        /\ Len(log) = 4
        /\ Roles(log) = <<"user", "assistant", "tool", "assistant">>
        /\ log = appended
        /\ CallNames(log[2]) = <<"get_list_game">>
        /\ log[3].content = get_list_game
        /\ Len(GameCatalog) = 7
        /\ log[3].tool_call_id = log[2].tool_calls[1].id
        /\ log[4].tool_calls = <<>>
        /\ returned = log[4].content
        /\ Last(display) = [role |-> "assistant", content |-> log[4].content]
        /\ toolInvs = 1

C7_Witness == ListGameScenario /\ Len(log) = 4

C9_RoundTripWithoutTools ==
    (pc \in {"end", "idle"} /\ outcome \in {"running", "ok", "error"}
        /\ Len(work) >= turnBase + 2 /\ work[turnBase + 2].tool_calls = <<>>) =>
        /\ gwCalls = 1
        /\ toolInvs = 0
        /\ Len(work) = turnBase + 2
        /\ outcome # "error"
        /\ TurnOver =>
              /\ log = work
              /\ Roles(SubSeq(log, turnBase + 1, Len(log))) = <<"user", "assistant">>
              /\ returned = Last(log).content

C9_Witness ==
    /\ TurnOver
    /\ outcome = "ok"
    /\ gwCalls = 1
    /\ toolInvs = 0
    /\ turnBase > 0

WelcomeMessage == [AIMessage(WELCOME_MSG, <<>>, 0) EXCEPT !.id = 1]

\* C10: run on an empty message list the graph ends with the welcome message
\* as its only message and without any Gateway call; run on a non-empty list
\* it calls the Gateway in its first step.
C10_WelcomeShortCircuit ==
    /\ startLog = <<>> =>
          /\ gwCalls = 0
          /\ pc \in {"chatbot", "end"}
          /\ pc = "end" => work = <<WelcomeMessage>>
    /\ (startLog # <<>> /\ (pc # "chatbot" \/ step > 0)) => gwCalls >= 1

C10_Witness ==
    /\ startLog = <<>>
    /\ pc = "end"
    /\ Last(work).content = WELCOME_MSG

\* the calls of message i of msgs are answered by the messages right after it,
\* one tool message per call, in the order of the calls
AnsweredInOrder(msgs, i) ==
    LET calls == msgs[i].tool_calls
    IN  /\ i + Len(calls) <= Len(msgs)
        /\ \A k \in 1..Len(calls) :
              /\ msgs[i + k].role = "tool"
              /\ msgs[i + k].tool_call_id = calls[k].id

Requesting(msgs) == {i \in 1..Len(msgs) : msgs[i].tool_calls # <<>>}

AfterToolsStep == pc = "chatbot" /\ step > 0

\* C11 as stated: the calls of one assistant message are resolved one after
\* another in the order the model emitted them, and their tool messages
\* follow the requesting message in that order, contiguous.
C11_SequentialInOrder ==
    /\ \A i \in Requesting(log) : AnsweredInOrder(log, i)
    /\ AfterToolsStep =>
          \E i \in Requesting(work) :
              /\ i + Len(work[i].tool_calls) = Len(work)
              /\ AnsweredInOrder(work, i)
              /\ ran = [k \in 1..Len(work[i].tool_calls) |-> work[i].tool_calls[k].id]

\* C11 (amended): the tool messages of the calls of one assistant message
\* follow the requesting message in the order the model emitted the calls,
\* contiguous, never interleaved with other messages or reordered; every
\* call is run once, in whatever order the calls finish.
C11_ResultsInRequestOrder ==
    /\ \A i \in Requesting(log) : AnsweredInOrder(log, i)
    /\ AfterToolsStep =>
          \E i \in Requesting(work) :
              /\ i + Len(work[i].tool_calls) = Len(work)
              /\ AnsweredInOrder(work, i)
              /\ Len(ran) = Len(work[i].tool_calls)
              /\ \A k \in 1..Len(work[i].tool_calls) :
                    Cardinality({j \in 1..Len(ran) : ran[j] = work[i].tool_calls[k].id}) = 1

C11_Witness ==
    /\ TurnOver
    /\ outcome = "ok"
    /\ \E i \in Requesting(log) :
          /\ CallNames(log[i]) = <<"get_list_game", "search_game_online">>
          /\ log[i + 1].content = get_list_game
          /\ log[i + 2].content = SearchText

IsPrefix(p, q) == Len(p) <= Len(q) /\ SubSeq(q, 1, Len(p)) = p

\* C12: every step leaves the log it found as a prefix of the log it leaves,
\* except the reset, which happens between turns and leaves the state of a
\* new session: empty display, empty log, order empty and finished false.
C12_AppendOnlyUntilReset ==
    [][\/ IsPrefix(log, log')
       \/ /\ pc = "idle"
          /\ pc' = "idle"
          /\ outcome' = "cleared"
          /\ log' = <<>>
          /\ display' = <<>>
          /\ aux' = [order |-> <<>>, finished |-> FALSE]]_vars

C12_Witness ==
    /\ outcome = "cleared"
    /\ log = <<>>
    /\ Len(work) > 2
    /\ turns = MaxTurns

\* C13: while the API key is missing nothing of the page past the key check
\* runs: no submit is processed, no graph run is started, and neither the
\* Gateway nor a tool (the search included) is ever called; the only thing
\* the script does is report the missing key.
C13_NoCallWithoutKey ==
    apiKey = "" =>
        /\ pc = "idle"
        /\ turns = 0
        /\ gwCalls = 0
        /\ toolInvs = 0
        /\ gwInput = <<>>
        /\ display = <<>>
        /\ log = <<>>
        /\ work = <<>>

C13_Witness == apiKey = "" /\ configError

\* the calls to names outside the registry carried by message i of msgs
UnknownCalls(msgs, i) ==
    {k \in 1..Len(msgs[i].tool_calls) : msgs[i].tool_calls[k].name \notin RegisteredTools}

Resolved(msgs) ==
    \A i \in Requesting(msgs) : \A k \in 1..Len(msgs[i].tool_calls) :
        Cardinality({j \in (i + 1)..Len(msgs) :
                        /\ msgs[j].role = "tool"
                        /\ msgs[j].tool_call_id = msgs[i].tool_calls[k].id}) = 1

Linked(msgs) ==
    \A j \in 1..Len(msgs) :
        msgs[j].role = "tool" =>
            \E i \in 1..(j - 1) :
                /\ msgs[i].role = "assistant"
                /\ \E k \in 1..Len(msgs[i].tool_calls) :
                      msgs[i].tool_calls[k].id = msgs[j].tool_call_id

\* C16: every tool message of the log carries the id of a tool call of an
\* assistant message before it, and so does every tool message of the list
\* a graph run has built when it returns or fails (the list only grows
\* during a run, so its earlier values are prefixes of that one).
C16_ToolMessagesLinked ==
    /\ Linked(log)
    /\ pc \in {"end", "except"} => Linked(work)

C16_Witness ==
    /\ TurnOver
    /\ \E j \in 1..Len(log) : log[j].role = "tool" /\ log[j].tool_call_id > 0

StoredRoles == {"user", "assistant", "tool"}

\* only user, assistant and tool messages are stored, and each message of
\* the log is one that a submit, the Gateway or the tool step appended
OnlyAppendedStored ==
    /\ \A i \in 1..Len(log) :
          /\ log[i].role \in StoredRoles
          /\ \E j \in 1..Len(appended) : appended[j] = log[i]
    /\ \A n \in 1..Len(work) : work[n].role \in StoredRoles
    /\ \A d \in 1..Len(display) : display[d].role \in {"user", "assistant"}

\* C17: the system instruction is never stored: the log, the list a run
\* works on and the display hold user, assistant and tool messages only, each
\* message of the log being one that a submit, the Gateway or the tool step
\* appended since the last reset; and every Gateway call receives exactly
\* the system instruction followed by the whole list of the run.
C17_SystemPrependedNotStored ==
    /\ []OnlyAppendedStored
    /\ [][gwCalls' = gwCalls + 1 =>
             /\ gwInput' = <<GAMEBOT_SYSINT>> \o work
             /\ Len(gwInput') = Len(work) + 1]_vars

C17_Witness ==
    /\ TurnOver
    /\ outcome = "ok"
    /\ turns = 2
    /\ gwCalls = 2
    /\ Len(gwInput) = Len(log)
    /\ Head(gwInput) = GAMEBOT_SYSINT
    /\ Len(log) > 4

\* C18: order and finished keep their initial values (empty, false) in every
\* state, in the stored Conversation State and in the state a run works on,
\* whatever steps were taken.
C18_AuxFieldsUntouched ==
    /\ aux = [order |-> <<>>, finished |-> FALSE]
    /\ waux = [order |-> <<>>, finished |-> FALSE]

C18_Witness ==
    /\ TurnOver
    /\ turns = 2
    /\ outcome = "ok"
    /\ gwCalls = 2
    /\ aux.finished = FALSE

\* C19: when a turn has ended without an error, the last message of the log
\* is an assistant message without tool calls, and the text handed to the
\* shell (and shown as the last display entry) is that message's content.
C19_NormalEndReturnsFinalReply ==
    (pc = "idle" /\ outcome = "ok") =>
        /\ log # <<>>
        /\ Last(log).role = "assistant"
        /\ Last(log).tool_calls = <<>>
        /\ returned = Last(log).content
        /\ Last(display) = [role |-> "assistant", content |-> Last(log).content]

C19_Witness ==
    /\ pc = "idle"
    /\ outcome = "ok"
    /\ Len(log) > 2
    /\ log[Len(log) - 1].role = "tool"
    /\ returned = "a1"

\* the contents of the user entries of a message list, in order
UserTextsOf(msgs) ==
    LET users == SelectSeq(msgs, LAMBDA m : m.role = "user")
    IN  [i \in 1..Len(users) |-> users[i].content]

====
